---- MODULE Spec2Model ----
(***************************************************************************)
(* Model of app/server.py: the simulated robot control API.  The state is  *)
(* the module-level dictionary pin_states; every Flask route is a handler  *)
(* that reads and writes it one subscript at a time.  The handlers are     *)
(* modelled at the grain of one pin access per step (Step), and as whole   *)
(* calls (Run), both from the same per-handler definitions.                *)
(*                                                                         *)
(* Pin numbers 17, 18, 22, 23 are written "17", "18", "22", "23": the      *)
(* dictionary mixes integer and string keys, and a TLC function domain     *)
(* holds one kind of value.  No route can name a motor pin by its number,  *)
(* so the two kinds of key never meet in the program either.               *)
(***************************************************************************)
EXTENDS Integers, Sequences, FiniteSets, TLC

VARIABLES pin_states, th, last, nreq

vars == <<pin_states, th, last, nreq>>

(* ---------------- bounds ---------------- *)
NumThreads == 2
MaxRequests == 2

Threads == 1..NumThreads

(* ---------------- the pin table (server.py 8-28) ---------------- *)
MOTOR_PINS ==
    [forward |-> "17", backward |-> "18", left |-> "22", right |-> "23"]

\* insertion order of MOTOR_PINS, the order .values() iterates in
MotorKeys == <<"forward", "backward", "left", "right">>

MotorPinValues == [i \in 1..Len(MotorKeys) |-> MOTOR_PINS[MotorKeys[i]]]

\* insertion order of pin_states, the order "for key in pin_states" iterates in
PinKeyOrder ==
    MotorPinValues \o
    <<"pump", "vacuum", "centre", "side", "mop", "mop_up", "mop_down",
      "centre_brush", "centre_brush_up", "centre_brush_down">>

Range(s) == {s[i] : i \in 1..Len(s)}

MovementPins == Range(MotorPinValues)

InitialPinStatesMotorsHigh == [k \in Range(PinKeyOrder) |-> k \in MovementPins]

\* pin_states as the module builds it: every key False
InitialPinStates == [k \in Range(PinKeyOrder) |-> FALSE]

\* pin_states[k] = v : a dictionary store creates the key when it is missing
SetPin(ps, k, v) ==
    IF k \in DOMAIN ps
    THEN [ps EXCEPT ![k] = v]
    ELSE [x \in (DOMAIN ps) \cup {k} |-> IF x = k THEN v ELSE ps[x]]

(* ---------------- the routes ---------------- *)
ToggleKeyCopyPaste ==
    [toggle_pump |-> "pump", toggle_vacuum |-> "vacuum",
     toggle_centre |-> "centre", toggle_side |-> "centre",
     toggle_mop |-> "mop", toggle_centrebrush |-> "centre_brush"]

\* the key of pin_states each toggle route negates and reports
ToggleKey ==
    [toggle_pump |-> "pump", toggle_vacuum |-> "vacuum",
     toggle_centre |-> "centre", toggle_side |-> "side",
     toggle_mop |-> "mop", toggle_centrebrush |-> "centre_brush"]

ToggleHandlers == DOMAIN ToggleKey

PositionalPinsTypo ==
    [mop_up |-> [first |-> "mop_up", second |-> "mop_down",
                 key |-> "mop", val |-> "moving up"],
     mop_down |-> [first |-> "mop_down", second |-> "mop_up",
                   key |-> "mop", val |-> "moving down"],
     centre_brush_up |-> [first |-> "centre_brush_up",
                          second |-> "centre_brush_down",
                          key |-> "centre_brush", val |-> "moving up"],
     centre_brush_down |-> [first |-> "centre_brush_dwn",
                            second |-> "centre_brush_up",
                            key |-> "centre_brush", val |-> "moving down"]]

PositionalPinsWrongSibling ==
    [mop_up |-> [first |-> "mop_up", second |-> "centre_brush_down",
                 key |-> "mop", val |-> "moving up"],
     mop_down |-> [first |-> "mop_down", second |-> "mop_up",
                   key |-> "mop", val |-> "moving down"],
     centre_brush_up |-> [first |-> "centre_brush_up",
                          second |-> "centre_brush_down",
                          key |-> "centre_brush", val |-> "moving up"],
     centre_brush_down |-> [first |-> "centre_brush_down",
                            second |-> "centre_brush_up",
                            key |-> "centre_brush", val |-> "moving down"]]

\* first: the pin written True, second: the pin written False, in that order
PositionalPins ==
    [mop_up |-> [first |-> "mop_up", second |-> "mop_down",
                 key |-> "mop", val |-> "moving up"],
     mop_down |-> [first |-> "mop_down", second |-> "mop_up",
                   key |-> "mop", val |-> "moving down"],
     centre_brush_up |-> [first |-> "centre_brush_up",
                          second |-> "centre_brush_down",
                          key |-> "centre_brush", val |-> "moving up"],
     centre_brush_down |-> [first |-> "centre_brush_down",
                            second |-> "centre_brush_up",
                            key |-> "centre_brush", val |-> "moving down"]]

PositionalHandlers == DOMAIN PositionalPins

\* the values of <direction> that requests are drawn from: the four keys of
\* MOTOR_PINS, "stop", and two strings that are neither
InvalidDirections == {"sideways", "17"}

Directions == (DOMAIN MOTOR_PINS) \cup {"stop"} \cup InvalidDirections

Requests ==
    [op : {"move"}, arg : Directions]
    \cup [op : ToggleHandlers \cup PositionalHandlers \cup {"stop_move", "stop_all"},
          arg : {""}]

(* ---------------- responses ---------------- *)
NoResp == [code |-> 0, key |-> "", val |-> ""]

Resp(code, key, val) == [code |-> code, key |-> key, val |-> val]

OnOffSwapped(b) == IF b THEN "off" ELSE "on"

\* 'on' if pin_states[k] else 'off'
OnOff(b) == IF b THEN "on" ELSE "off"

MovingStatusNoDirection(direction) == "Simulated moving"

\* f"Simulated moving {direction}"
MovingStatus(direction) == "Simulated moving " \o direction

(* ---------------- a request in flight ---------------- *)
\* pc: the next pin access of the handler; i: the loop index of a clearing
\* loop; tmp: the value a toggle has read and not yet written back
Idle == [pc |-> "idle", op |-> "", arg |-> "", i |-> 0, tmp |-> FALSE,
         resp |-> NoResp]

Out(ps, l) == [ps |-> ps, l |-> l]

Done(l, r) == [l EXCEPT !.pc = "done", !.i = 0, !.tmp = FALSE, !.resp = r]

EntrySkipClear(r) ==
    [Idle EXCEPT !.op = r.op, !.arg = r.arg,
                 !.pc = CASE r.op = "move" -> "move_body"
                          [] r.op \in ToggleHandlers -> "toggle_read"
                          [] r.op \in PositionalHandlers -> "pos_first"
                          [] r.op = "stop_move" -> "stop_move_clear"
                          [] r.op = "stop_all" -> "stop_all_clear",
                 !.i = IF r.op \in ToggleHandlers \cup PositionalHandlers \cup {"move"}
                       THEN 0 ELSE 1]

\* where the handler of request r starts
Entry(r) ==
    [Idle EXCEPT !.op = r.op, !.arg = r.arg,
                 !.pc = CASE r.op = "move" -> "move_clear"
                          [] r.op \in ToggleHandlers -> "toggle_read"
                          [] r.op \in PositionalHandlers -> "pos_first"
                          [] r.op = "stop_move" -> "stop_move_clear"
                          [] r.op = "stop_all" -> "stop_all_clear",
                 !.i = IF r.op \in ToggleHandlers \cup PositionalHandlers
                       THEN 0 ELSE 1]

StopAllMotorsStepShort(ps, l, next) ==
    Out(SetPin(ps, MotorPinValues[l.i], FALSE),
        IF l.i < Len(MotorPinValues) - 1
        THEN [l EXCEPT !.i = l.i + 1]
        ELSE next)

\* one iteration of "for pin in MOTOR_PINS.values(): pin_states[pin] = False";
\* after the last one the handler goes on at pc next
StopAllMotorsStep(ps, l, next) ==
    Out(SetPin(ps, MotorPinValues[l.i], FALSE),
        IF l.i < Len(MotorPinValues)
        THEN [l EXCEPT !.i = l.i + 1]
        ELSE next)

StopEverythingStepShort(ps, l, next) ==
    Out(SetPin(ps, PinKeyOrder[l.i], FALSE),
        IF l.i < Len(PinKeyOrder) - 1
        THEN [l EXCEPT !.i = l.i + 1]
        ELSE next)

StopEverythingStepSkipsMotors(ps, l, next) ==
    Out(IF PinKeyOrder[l.i] \in MovementPins
        THEN ps
        ELSE SetPin(ps, PinKeyOrder[l.i], FALSE),
        IF l.i < Len(PinKeyOrder)
        THEN [l EXCEPT !.i = l.i + 1]
        ELSE next)

\* one iteration of "for key in pin_states: pin_states[key] = False"
StopEverythingStep(ps, l, next) ==
    Out(SetPin(ps, PinKeyOrder[l.i], FALSE),
        IF l.i < Len(PinKeyOrder)
        THEN [l EXCEPT !.i = l.i + 1]
        ELSE next)

MoveBodyUnknownIsStop(ps, l) ==
    IF l.arg \in DOMAIN MOTOR_PINS
    THEN Out(SetPin(ps, MOTOR_PINS[l.arg], TRUE),
             Done(l, Resp(200, "status", MovingStatus(l.arg))))
    ELSE Out(ps, [l EXCEPT !.pc = "move_stop", !.i = 1])

\* the if / elif / else of move, after its first stop_all_motors()
MoveBody(ps, l) ==
    IF l.arg \in DOMAIN MOTOR_PINS
    THEN Out(SetPin(ps, MOTOR_PINS[l.arg], TRUE),
             Done(l, Resp(200, "status", MovingStatus(l.arg))))
    ELSE IF l.arg = "stop"
    THEN Out(ps, [l EXCEPT !.pc = "move_stop", !.i = 1])
    ELSE Out(ps, Done(l, Resp(400, "error", "Invalid direction")))

\* move(direction)
MoveStep(ps, l) ==
    CASE l.pc = "move_clear" ->
           StopAllMotorsStep(ps, l, [l EXCEPT !.pc = "move_body", !.i = 0])
      [] l.pc = "move_body" -> MoveBody(ps, l)
      [] l.pc = "move_stop" ->
           StopAllMotorsStep(ps, l,
               Done(l, Resp(200, "status", "Simulated stop movement")))

ToggleStepSetsTrue(ps, l) ==
    LET k == ToggleKey[l.op] IN
    CASE l.pc = "toggle_read" ->
           Out(ps, [l EXCEPT !.pc = "toggle_write", !.tmp = ps[k]])
      [] l.pc = "toggle_write" ->
           Out(SetPin(ps, k, TRUE), [l EXCEPT !.pc = "toggle_resp", !.tmp = FALSE])
      [] l.pc = "toggle_resp" ->
           Out(ps, Done(l, Resp(200, k, OnOff(ps[k]))))

\* toggle_pump, toggle_vacuum, toggle_centre, toggle_side, toggle_mop,
\* toggle_centrebrush: pin_states[k] = not pin_states[k], then the response
\* reads pin_states[k] again
ToggleStep(ps, l) ==
    LET k == ToggleKey[l.op] IN
    CASE l.pc = "toggle_read" ->
           Out(ps, [l EXCEPT !.pc = "toggle_write", !.tmp = ps[k]])
      [] l.pc = "toggle_write" ->
           Out(SetPin(ps, k, ~l.tmp), [l EXCEPT !.pc = "toggle_resp", !.tmp = FALSE])
      [] l.pc = "toggle_resp" ->
           Out(ps, Done(l, Resp(200, k, OnOff(ps[k]))))

PositionalStepNoClear(ps, l) ==
    LET p == PositionalPins[l.op] IN
    CASE l.pc = "pos_first" ->
           Out(SetPin(ps, p.first, TRUE), [l EXCEPT !.pc = "pos_second"])
      [] l.pc = "pos_second" ->
           Out(ps, Done(l, Resp(200, p.key, p.val)))

\* mop_up, mop_down, centre_brush_up, centre_brush_down
PositionalStep(ps, l) ==
    LET p == PositionalPins[l.op] IN
    CASE l.pc = "pos_first" ->
           Out(SetPin(ps, p.first, TRUE), [l EXCEPT !.pc = "pos_second"])
      [] l.pc = "pos_second" ->
           Out(SetPin(ps, p.second, FALSE), Done(l, Resp(200, p.key, p.val)))

StopMoveStepEverything(ps, l) ==
    StopEverythingStep(ps, l, Done(l, Resp(200, "status", "All movement stopped")))

\* stop_move
StopMoveStep(ps, l) ==
    StopAllMotorsStep(ps, l, Done(l, Resp(200, "status", "All movement stopped")))

\* stop_all
StopAllStep(ps, l) ==
    StopEverythingStep(ps, l, Done(l, Resp(200, "status", "All systems stopped")))

\* the next step of the handler a request is in
Step(ps, l) ==
    CASE l.op = "move" -> MoveStep(ps, l)
      [] l.op \in ToggleHandlers -> ToggleStep(ps, l)
      [] l.op \in PositionalHandlers -> PositionalStep(ps, l)
      [] l.op = "stop_move" -> StopMoveStep(ps, l)
      [] l.op = "stop_all" -> StopAllStep(ps, l)

\* a handler run from where it is to its return, nothing in between
RECURSIVE Run(_, _)
Run(ps, l) ==
    IF l.pc = "done" THEN Out(ps, l)
    ELSE LET s == Step(ps, l) IN Run(s.ps, s.l)

\* a whole call of the handler of request r on pin state ps
Call(ps, r) == Run(ps, Entry(r))

(* ---------------- the state machine ---------------- *)
\* two requests address the same group of pins
Group(r) ==
    CASE r.op \in {"move", "stop_move"} -> "movement"
      [] r.op \in ToggleHandlers -> ToggleKey[r.op]
      [] r.op \in PositionalHandlers -> PositionalPins[r.op].key \o "_pair"
      [] r.op = "stop_all" -> "all"

\* history of the calls served whole: reqs is the last request, preceded by
\* the one before it when the two address the same group, or one is stop_all
\* and the other a movement request; pre is the pin state the last request
\* started from
NoLast == [pre |-> InitialPinStates, reqs |-> <<>>]

Record(h, ps, r) ==
    [pre |-> ps,
     reqs |-> IF /\ h.reqs # <<>>
                 /\ \/ Group(h.reqs[Len(h.reqs)]) = Group(r)
                    \/ {Group(h.reqs[Len(h.reqs)]), Group(r)} = {"movement", "all"}
              THEN <<h.reqs[Len(h.reqs)], r>>
              ELSE <<r>>]

Init ==
    /\ pin_states = InitialPinStates
    /\ th = [t \in Threads |-> Idle]
    /\ last = NoLast
    /\ nreq = 0

\* Flask's development server (app.run) hands each request to its own
\* thread: a request is accepted whatever the other threads are doing
Accept(t, r) ==
    /\ th[t].pc = "idle"
    /\ nreq < MaxRequests
    /\ th' = [th EXCEPT ![t] = Entry(r)]
    /\ nreq' = nreq + 1
    /\ UNCHANGED <<pin_states, last>>

\* thread t runs its handler up to and including its next pin access
Advance(t) ==
    /\ th[t].pc \notin {"idle", "done"}
    /\ pin_states' = Step(pin_states, th[t]).ps
    /\ th' = [th EXCEPT ![t] = Step(pin_states, th[t]).l]
    /\ UNCHANGED <<last, nreq>>

\* the response is sent and the thread is free again
Reply(t) ==
    /\ th[t].pc = "done"
    /\ th' = [th EXCEPT ![t] = Idle]
    /\ UNCHANGED <<pin_states, last, nreq>>

Next ==
    \/ \E t \in Threads : \E r \in Requests : Accept(t, r)
    \/ \E t \in Threads : Advance(t)
    \/ \E t \in Threads : Reply(t)

Spec == Init /\ [][Next]_vars

(* ---- requests served one at a time, pin access by pin access ---- *)
AllIdle == \A t \in Threads : th[t].pc = "idle"

\* last remembers the request and the pin state its handler starts from
AcceptAlone(t, r) ==
    /\ AllIdle
    /\ th' = [th EXCEPT ![t] = Entry(r)]
    /\ last' = [pre |-> pin_states, reqs |-> <<r>>]
    /\ UNCHANGED <<pin_states, nreq>>

NextSeq ==
    \/ \E t \in Threads : \E r \in Requests : AcceptAlone(t, r)
    \/ \E t \in Threads : Advance(t)
    \/ \E t \in Threads : Reply(t)

SpecSeq == Init /\ [][NextSeq]_vars

(* ---- requests served one at a time, a whole call per step ---- *)
\* last remembers the call just served and the pin state it started from
Serve(r) ==
    LET c == Call(pin_states, r) IN
    /\ th[1].pc \in {"idle", "done"}
    /\ pin_states' = c.ps
    /\ th' = [th EXCEPT ![1] = c.l]
    /\ last' = Record(last, pin_states, r)
    /\ UNCHANGED nreq

NextOps == \E r \in Requests : Serve(r)

SpecOps == Init /\ [][NextOps]_vars

(* ======================= properties ======================= *)
Req(op, arg) == [op |-> op, arg |-> arg]

\* the request of the call served last
Served(r) == last.reqs # <<>> /\ last.reqs[Len(last.reqs)] = r

\* the two calls served last, in this order
ServedInARow(r1, r2) == last.reqs = <<r1, r2>>

High(ps) == {k \in DOMAIN ps : ps[k]}

ValidDirections == (DOMAIN MOTOR_PINS) \cup {"stop"}

\* C1: with requests served one at a time, at most one of the pins 17, 18,
\* 22, 23 is high in every state, the states between two pin writes of one
\* handler included
MovementExclusive == Cardinality(High(pin_states) \cap {"17", "18", "22", "23"}) <= 1

\* a move has cleared pin 17 and not yet pin 18, which the move before set
MovementExclusiveWitness ==
    \E t \in Threads :
        /\ th[t].pc = "move_clear" /\ th[t].i = 2 /\ th[t].arg = "left"
        /\ pin_states["18"]

\* C2: in every state, between the two writes of mop_up, mop_down,
\* centre_brush_up and centre_brush_down too, at most one pin of each
\* up/down pair is high
PairExclusive ==
    /\ ~(pin_states["mop_up"] /\ pin_states["mop_down"])
    /\ ~(pin_states["centre_brush_up"] /\ pin_states["centre_brush_down"])

\* C3: no two requests are both in the middle of their pin accesses: a
\* handler that has made one of its accesses makes the rest before any
\* other handler reads or writes a pin
HasAccessed(l) ==
    \/ l.pc \in {"move_clear", "stop_move_clear", "stop_all_clear"} /\ l.i > 1
    \/ l.pc \in {"move_body", "move_stop", "toggle_write", "toggle_resp",
                 "pos_second"}

WillAccess(l) ==
    /\ l.pc \notin {"idle", "done"}
    /\ ~(l.pc = "move_body" /\ l.arg \notin ValidDirections)

InMidCall(l) == HasAccessed(l) /\ WillAccess(l)

MutualExclusion ==
    \A t, u \in Threads : t # u => ~(InMidCall(th[t]) /\ InMidCall(th[u]))

\* C4: after move with a direction that is neither a key of MOTOR_PINS nor
\* "stop" the answer is 400 {"error": "Invalid direction"}, pins 17, 18, 22
\* and 23 are low and every other pin is as it was before the call
InvalidDirectionClears ==
    \A d \in Directions \ ValidDirections :
        Served(Req("move", d)) =>
            /\ th[1].resp = Resp(400, "error", "Invalid direction")
            /\ High(pin_states) \cap {"17", "18", "22", "23"} = {}
            /\ DOMAIN pin_states = DOMAIN last.pre
            /\ High(pin_states) = High(last.pre) \ {"17", "18", "22", "23"}

\* move("sideways") right after move("forward"), the pump running
InvalidDirectionWitness ==
    /\ ServedInARow(Req("move", "forward"), Req("move", "sideways"))
    /\ last.pre["17"] /\ ~pin_states["17"]
    /\ pin_states["pump"]
    /\ th[1].resp.code = 400

\* C5: after move(d1) then move(d2), d1 and d2 each a key of MOTOR_PINS or
\* "stop", the high movement pins are exactly the pin of d2, or none when
\* d2 is "stop", whatever d1 was
PinOf(d) ==
    CASE d = "forward" -> {"17"} [] d = "backward" -> {"18"}
      [] d = "left" -> {"22"} [] d = "right" -> {"23"} [] d = "stop" -> {}

SecondMoveDecides ==
    \A d1, d2 \in ValidDirections :
        ServedInARow(Req("move", d1), Req("move", d2)) =>
            High(pin_states) \cap {"17", "18", "22", "23"} = PinOf(d2)

\* move("left") right after move("forward")
SecondMoveWitness ==
    /\ ServedInARow(Req("move", "forward"), Req("move", "left"))
    /\ last.pre["17"] /\ ~pin_states["17"] /\ pin_states["22"]

\* C6: after stop_all every key of pin_states is low: the pin state is the
\* one the program starts with
StopAllClearsAll ==
    Served(Req("stop_all", "")) =>
        /\ \A k \in {"17", "18", "22", "23", "pump", "vacuum", "centre", "side",
                     "mop", "centre_brush", "mop_up", "mop_down",
                     "centre_brush_up", "centre_brush_down"} : ~pin_states[k]
        /\ pin_states = InitialPinStates

\* stop_all with a movement pin, a toggle pin and a positional pin high
StopAllWitness ==
    /\ Served(Req("stop_all", ""))
    /\ last.pre["23"] /\ last.pre["centre_brush"] /\ last.pre["centre_brush_down"]
    /\ High(pin_states) = {}

\* C7: a toggle served right after the same toggle leaves pin_states as it
\* was before the first of the two
ToggleInvolution ==
    [][\A h \in ToggleHandlers :
         (Served(Req(h, "")) /\ last'.reqs = <<Req(h, ""), Req(h, "")>>)
             => pin_states' = last.pre]_vars

\* toggle_vacuum twice in a row from a state with vacuum and side high
ToggleInvolutionWitness ==
    /\ ServedInARow(Req("toggle_vacuum", ""), Req("toggle_vacuum", ""))
    /\ ~last.pre["vacuum"] /\ pin_states["vacuum"] /\ pin_states["side"]

\* C8: after up then down on the same pair the down pin is high and the up
\* pin low; after down then up the up pin is high and the down pin low
UpDownLeavesLast ==
    /\ ServedInARow(Req("mop_up", ""), Req("mop_down", ""))
           => pin_states["mop_down"] /\ ~pin_states["mop_up"]
    /\ ServedInARow(Req("mop_down", ""), Req("mop_up", ""))
           => pin_states["mop_up"] /\ ~pin_states["mop_down"]
    /\ ServedInARow(Req("centre_brush_up", ""), Req("centre_brush_down", ""))
           => pin_states["centre_brush_down"] /\ ~pin_states["centre_brush_up"]
    /\ ServedInARow(Req("centre_brush_down", ""), Req("centre_brush_up", ""))
           => pin_states["centre_brush_up"] /\ ~pin_states["centre_brush_down"]

\* centre_brush_down right after centre_brush_up
UpDownWitness ==
    /\ ServedInARow(Req("centre_brush_up", ""), Req("centre_brush_down", ""))
    /\ last.pre["centre_brush_up"]
    /\ pin_states["centre_brush_down"] /\ ~pin_states["centre_brush_up"]

\* C9 as stated: move answers 200 {"status": "Moving <direction>"} for a key
\* of MOTOR_PINS and 200 {"status": "Stopped"} for "stop"
MoveAnswersMoving ==
    \A d \in ValidDirections :
        Served(Req("move", d)) =>
            th[1].resp = Resp(200, "status",
                              IF d = "stop" THEN "Stopped" ELSE "Moving " \o d)

\* C9 as the handler answers: 200 {"status": "Simulated moving <direction>"}
\* for a key of MOTOR_PINS and 200 {"status": "Simulated stop movement"} for
\* "stop"; from the all-low state move("forward") answers "Simulated moving
\* forward"
MoveAnswersSimulated ==
    /\ \A d \in ValidDirections :
          Served(Req("move", d)) =>
              th[1].resp = Resp(200, "status",
                                CASE d = "forward" -> "Simulated moving forward"
                                  [] d = "backward" -> "Simulated moving backward"
                                  [] d = "left" -> "Simulated moving left"
                                  [] d = "right" -> "Simulated moving right"
                                  [] d = "stop" -> "Simulated stop movement")
    /\ (Served(Req("move", "forward")) /\ last.pre = InitialPinStates)
          => th[1].resp.val = "Simulated moving forward"

\* move("forward") served on the all-low state
MoveAnswersWitness ==
    /\ Served(Req("move", "forward"))
    /\ last.pre = InitialPinStates
    /\ High(pin_states) = {"17"}
    /\ th[1].resp.code = 200

\* C10: a toggle answers 200 {k: "on"} exactly when pin k is high after the
\* call and {k: "off"} exactly when it is low, and that level is the negation
\* of the level before the call; on the all-low state toggle_pump answers
\* "on", and "off" when served again
ToggleAnswersNewLevel ==
    /\ \A h \in ToggleHandlers :
          Served(Req(h, "")) =>
              /\ th[1].resp.code = 200
              /\ th[1].resp.key = ToggleKey[h]
              /\ th[1].resp.val \in {"on", "off"}
              /\ th[1].resp.val = "on" <=> pin_states[ToggleKey[h]]
              /\ th[1].resp.val = "off" <=> ~pin_states[ToggleKey[h]]
              /\ pin_states[ToggleKey[h]] = ~last.pre[ToggleKey[h]]
    /\ (Served(Req("toggle_pump", "")) /\ last.pre = InitialPinStates)
          => th[1].resp.val = "on"
    /\ (ServedInARow(Req("toggle_pump", ""), Req("toggle_pump", ""))
           /\ pin_states = InitialPinStates)
          => th[1].resp.val = "off"

\* toggle_pump served twice in a row, starting on the all-low state
ToggleAnswersWitness ==
    /\ ServedInARow(Req("toggle_pump", ""), Req("toggle_pump", ""))
    /\ pin_states = InitialPinStates
    /\ th[1].resp = Resp(200, "pump", "off")

\* C11: stop_all right after stop_move gives the pin state stop_all alone
\* gives from where stop_move started, stop_move right after stop_all
\* changes nothing, and no pin is high after stop_all that is low after
\* stop_move from the same state
StopAllCoversStopMove ==
    [][LET sm == Req("stop_move", "")
           sa == Req("stop_all", "")
       IN  /\ (Served(sm) /\ last'.reqs = <<sm, sa>>)
                 => pin_states' = Call(last.pre, sa).ps
           /\ (Served(sa) /\ last'.reqs = <<sa, sm>>)
                 => pin_states' = pin_states
           /\ (last'.reqs # <<>> /\ last'.reqs[Len(last'.reqs)] = sm)
                 => High(Call(pin_states, sa).ps) \subseteq High(pin_states')]_vars

\* stop_all right after a stop_move that left the pump and mop_up high: the
\* two gave different pin states
StopAllCoversWitness ==
    /\ ServedInARow(Req("stop_move", ""), Req("stop_all", ""))
    /\ last.pre["pump"] /\ last.pre["mop_up"]
    /\ High(pin_states) = {}

AllPinNames ==
    {"17", "18", "22", "23", "pump", "vacuum", "centre", "side", "mop",
     "centre_brush", "mop_up", "mop_down", "centre_brush_up",
     "centre_brush_down"}

\* C12: before any request has been accepted pin_states holds the fourteen
\* registered pins and every one of them is low
StartsAllLow ==
    nreq = 0 =>
        /\ DOMAIN pin_states = AllPinNames
        /\ \A k \in AllPinNames : ~pin_states[k]

\* the server has started and no request has come in
StartsAllLowWitness ==
    /\ nreq = 0
    /\ \A t \in Threads : th[t] = Idle
    /\ Cardinality(DOMAIN pin_states) = 14

\* C13: when two threads have both finished a move, with different keys of
\* MOTOR_PINS as directions, at most one of pins 17, 18, 22, 23 is high
ConcurrentMovesExclusive ==
    \A t, u \in Threads :
        (/\ t # u
         /\ th[t].pc = "done" /\ th[u].pc = "done"
         /\ th[t].op = "move" /\ th[u].op = "move"
         /\ th[t].arg \in DOMAIN MOTOR_PINS /\ th[u].arg \in DOMAIN MOTOR_PINS
         /\ th[t].arg # th[u].arg)
        => Cardinality(High(pin_states) \cap {"17", "18", "22", "23"}) <= 1

\* C14: when the only two requests so far were toggles of the same pin, on
\* two threads, and both have finished, the pin is low as at the start and
\* the two answers differ
ConcurrentTogglesBothCount ==
    \A t, u \in Threads : \A h \in ToggleHandlers :
        (/\ t # u
         /\ nreq = 2
         /\ th[t].pc = "done" /\ th[u].pc = "done"
         /\ th[t].op = h /\ th[u].op = h)
        => /\ ~pin_states[ToggleKey[h]]
           /\ th[t].resp.val # th[u].resp.val

\* C15: a move whose direction d is the one active when it starts (the pin
\* of d high, the other three low) returns with pin_states as it was; the
\* pin of d is low when the clearing loop is over, and it is written high
\* only from a state where all four movement pins are low
ClearThenSet ==
    [][\A t \in Threads : \A d \in DOMAIN MOTOR_PINS :
         (/\ th'[t].op = "move" /\ th'[t].arg = d
          /\ High(last'.pre) \cap {"17", "18", "22", "23"} = PinOf(d))
         => /\ th'[t].pc = "move_body"
                  => High(pin_states') \cap {"17", "18", "22", "23"} = {}
            /\ (PinOf(d) \subseteq High(pin_states')
                   /\ ~(PinOf(d) \subseteq High(pin_states)))
                  => /\ th[t].pc = "move_body"
                     /\ High(pin_states) \cap {"17", "18", "22", "23"} = {}
            /\ th'[t].pc = "done"
                  => /\ th[t].pc = "move_body"
                     /\ ~(PinOf(d) \subseteq High(pin_states))
                     /\ pin_states' = last'.pre]_vars

\* move("left") while left is active: pin 22 has been written low and is not
\* yet written high again
ClearThenSetWitness ==
    \E t \in Threads :
        /\ th[t].op = "move" /\ th[t].arg = "left" /\ th[t].pc = "move_body"
        /\ High(last.pre) \cap {"17", "18", "22", "23"} = {"22"}
        /\ ~pin_states["22"]

\* C16: move, whatever its direction, and stop_move leave every pin other
\* than 17, 18, 22, 23 at the level it had before the call
MovementOnly ==
    \A r \in Requests :
        (Served(r) /\ r.op \in {"move", "stop_move"}) =>
            /\ DOMAIN pin_states = DOMAIN last.pre
            /\ \A k \in AllPinNames \ {"17", "18", "22", "23"} :
                   pin_states[k] = last.pre[k]

\* stop_move with pin 22, the vacuum, the mop and centre_brush_up high
MovementOnlyWitness ==
    /\ Served(Req("stop_move", ""))
    /\ last.pre["22"] /\ ~pin_states["22"]
    /\ pin_states["vacuum"] /\ pin_states["mop"] /\ pin_states["centre_brush_up"]

\* C17: a toggle changes the pin of its name and no other pin, so
\* toggle_mop and toggle_centrebrush leave the four up/down pins alone; and
\* from the all-low state the toggles of any subset of the six, served one
\* after the other, leave exactly the pins of that subset high
NamedPin(h) ==
    CASE h = "toggle_pump" -> "pump" [] h = "toggle_vacuum" -> "vacuum"
      [] h = "toggle_centre" -> "centre" [] h = "toggle_side" -> "side"
      [] h = "toggle_mop" -> "mop" [] h = "toggle_centrebrush" -> "centre_brush"

ToggleOrder ==
    <<"toggle_pump", "toggle_vacuum", "toggle_centre", "toggle_side",
      "toggle_mop", "toggle_centrebrush">>

RECURSIVE CallAll(_, _)
CallAll(ps, hs) ==
    IF hs = <<>> THEN ps
    ELSE CallAll(Call(ps, Req(Head(hs), "")).ps, Tail(hs))

TogglesOnlyItsPin ==
    /\ \A h \in ToggleHandlers :
          Served(Req(h, "")) =>
              /\ DOMAIN pin_states = DOMAIN last.pre
              /\ \A k \in AllPinNames :
                     (pin_states[k] # last.pre[k]) <=> (k = NamedPin(h))
    /\ last.reqs = <<>> =>
          \A S \in SUBSET ToggleHandlers :
              High(CallAll(pin_states, SelectSeq(ToggleOrder, LAMBDA h : h \in S)))
                  = {NamedPin(h) : h \in S}

\* toggle_centrebrush has made the sixth toggle pin high, centre_brush_up
\* and mop_down staying high
TogglesOnlyItsPinWitness ==
    /\ Served(Req("toggle_centrebrush", ""))
    /\ {"pump", "vacuum", "centre", "side", "mop", "centre_brush"}
           \subseteq High(pin_states)
    /\ ~last.pre["centre_brush"]
    /\ last.pre["centre_brush_up"] /\ pin_states["centre_brush_up"]
    /\ last.pre["mop_down"] /\ pin_states["mop_down"]

\* C18: every call returns; it answers 400 when it is a move with a
\* direction that is neither a key of MOTOR_PINS nor "stop" and 200
\* otherwise; and pin_states always has exactly its fourteen keys
OnlyInvalidDirectionFails ==
    /\ DOMAIN pin_states = AllPinNames
    /\ th[1].pc \in {"idle", "done"}
    /\ \A r \in Requests :
          Served(r) =>
              /\ th[1].pc = "done"
              /\ th[1].resp.code =
                     IF r.op = "move" /\ r.arg \notin ValidDirections
                     THEN 400 ELSE 200

\* centre_brush_down answers 200 with the robot moving right
OnlyInvalidDirectionWitness ==
    /\ Served(Req("centre_brush_down", ""))
    /\ th[1].resp = Resp(200, "centre_brush", "moving down")
    /\ pin_states["23"] /\ pin_states["centre_brush_down"]

\* C19: after mop_up or mop_down exactly one of mop_up, mop_down is high,
\* and a call other than stop_all that starts with exactly one of them high
\* ends with exactly one of them high; the same for centre_brush_up and
\* centre_brush_down
PairHeldUntilStopAll ==
    [][\A p \in {<<"mop_up", "mop_down">>,
                 <<"centre_brush_up", "centre_brush_down">>} :
         LET served == last'.reqs[Len(last'.reqs)].op
             one(ps) == ps[p[1]] # ps[p[2]]
         IN  last'.reqs # <<>> =>
               /\ served \in {p[1], p[2]} => one(pin_states')
               /\ (one(pin_states) /\ served # "stop_all") => one(pin_states')]_vars

\* mop_up right after mop_down: the pair was held and is still held
PairHeldWitness ==
    /\ ServedInARow(Req("mop_down", ""), Req("mop_up", ""))
    /\ last.pre["mop_down"] /\ ~last.pre["mop_up"]
    /\ pin_states["mop_up"] /\ ~pin_states["mop_down"]

\* C20: mop_up and mop_down change no pin but mop_up and mop_down,
\* centre_brush_up and centre_brush_down no pin but those two, and a call
\* that is not move, stop_move or stop_all leaves pins 17, 18, 22, 23 alone
PositionalConfined ==
    /\ \A h \in {"mop_up", "mop_down"} :
          Served(Req(h, "")) =>
              /\ DOMAIN pin_states = DOMAIN last.pre
              /\ High(pin_states) \ {"mop_up", "mop_down"}
                    = High(last.pre) \ {"mop_up", "mop_down"}
    /\ \A h \in {"centre_brush_up", "centre_brush_down"} :
          Served(Req(h, "")) =>
              /\ DOMAIN pin_states = DOMAIN last.pre
              /\ High(pin_states) \ {"centre_brush_up", "centre_brush_down"}
                    = High(last.pre) \ {"centre_brush_up", "centre_brush_down"}
    /\ \A r \in Requests :
          (Served(r) /\ r.op \notin {"move", "stop_move", "stop_all"}) =>
              High(pin_states) \cap {"17", "18", "22", "23"}
                  = High(last.pre) \cap {"17", "18", "22", "23"}

\* mop_up with mop_down, centre_brush_down, pin 17 and the pump high
PositionalConfinedWitness ==
    /\ Served(Req("mop_up", ""))
    /\ last.pre["mop_down"] /\ ~last.pre["mop_up"]
    /\ pin_states["mop_up"] /\ ~pin_states["mop_down"]
    /\ pin_states["centre_brush_down"] /\ pin_states["17"] /\ pin_states["pump"]

====
